---- MODULE Spec2Model ----
(***************************************************************************)
(* State-machine model of the Excel Insider Trading Analyzer:              *)
(*   - parseExcelFile (services/excelParser.ts): schema check and          *)
(*     transaction extraction from the first sheet;                        *)
(*   - App (handleFileUpload / processData / resetState): the load cycle;  *)
(*   - ExcelViewer (components/ExcelViewer.tsx): search filter, summable   *)
(*     column inference, column selection, totals and the division row.    *)
(*                                                                         *)
(* JavaScript strings are sequences of one-character strings.  JavaScript  *)
(* numbers are exact decimals n / 10^e, plus NaN and +-Infinity; the       *)
(* quotient of two totals is an exact reduced fraction.                    *)
(***************************************************************************)
EXTENDS Integers, Sequences, FiniteSets, TLC

(***************************************************************************)
(* Strings                                                                 *)
(***************************************************************************)
LowerAlpha == <<"a","b","c","d","e","f","g","h","i","j","k","l","m","n","o","p","q","r","s","t","u","v","w","x","y","z">>

UpperAlpha == <<"A","B","C","D","E","F","G","H","I","J","K","L","M","N","O","P","Q","R","S","T","U","V","W","X","Y","Z">>

Digits == <<"0","1","2","3","4","5","6","7","8","9">>

IndexIn(alpha, c) ==
  IF \E i \in 1..Len(alpha) : alpha[i] = c
  THEN CHOOSE i \in 1..Len(alpha) : alpha[i] = c
  ELSE 0

\* String.prototype.toLowerCase / toUpperCase, character by character.
toLowerCase(s) ==
  [i \in 1..Len(s) |->
     IF IndexIn(UpperAlpha, s[i]) > 0 THEN LowerAlpha[IndexIn(UpperAlpha, s[i])] ELSE s[i]]

toUpperCase(s) ==
  [i \in 1..Len(s) |->
     IF IndexIn(LowerAlpha, s[i]) > 0 THEN UpperAlpha[IndexIn(LowerAlpha, s[i])] ELSE s[i]]

IsSpace(c) == c = " "

\* String.prototype.trim: drop leading and trailing white space.
RECURSIVE TrimStart(_)
TrimStart(s) ==
  IF s # <<>> /\ IsSpace(Head(s)) THEN TrimStart(Tail(s)) ELSE s

RECURSIVE TrimEnd(_)
TrimEnd(s) ==
  IF s # <<>> /\ IsSpace(s[Len(s)]) THEN TrimEnd(SubSeq(s, 1, Len(s) - 1)) ELSE s

trim(s) == TrimEnd(TrimStart(s))

\* s.startsWith(p)
StartsWith(s, p) == Len(p) <= Len(s) /\ SubSeq(s, 1, Len(p)) = p

\* String.prototype.includes: scan the start positions left to right.
RECURSIVE IncludesFrom(_, _, _)
IncludesFrom(s, t, k) ==
  IF k + Len(t) - 1 > Len(s) THEN FALSE
  ELSE IF SubSeq(s, k, k + Len(t) - 1) = t THEN TRUE
  ELSE IncludesFrom(s, t, k + 1)

includes(s, t) == IncludesFrom(s, t, 1)

\* s.replace(/,/g, '')
IsComma(c) == c = ","

replaceCommas(s) == SelectSeq(s, LAMBDA c : ~IsComma(c))

(***************************************************************************)
(* Numbers: n / 10^e (normalised), NaN, +Infinity, -Infinity               *)
(***************************************************************************)
RECURSIVE Pow10(_)
Pow10(k) == IF k = 0 THEN 1 ELSE 10 * Pow10(k - 1)

RECURSIVE Fin(_, _)
Fin(n, e) ==
  IF e > 0 /\ n % 10 = 0 THEN Fin(n \div 10, e - 1)
  ELSE [t |-> "fin", n |-> n, e |-> e]

NaN == [t |-> "nan", n |-> 0, e |-> 0]

Inf(sign) == [t |-> "inf", n |-> sign, e |-> 0]

Zero == Fin(0, 0)

isNaN(x) == x.t = "nan"

\* x + y on JavaScript numbers.
Add(x, y) ==
  IF isNaN(x) \/ isNaN(y) THEN NaN
  ELSE IF x.t = "inf" /\ y.t = "inf" THEN (IF x.n = y.n THEN x ELSE NaN)
  ELSE IF x.t = "inf" THEN x
  ELSE IF y.t = "inf" THEN y
  ELSE LET m == IF x.e > y.e THEN x.e ELSE y.e
       IN  Fin(x.n * Pow10(m - x.e) + y.n * Pow10(m - y.e), m)

Negate(x) ==
  IF x.t = "fin" THEN Fin(-x.n, x.e)
  ELSE IF x.t = "inf" THEN Inf(-x.n)
  ELSE NaN

\* x === 0
IsZero(x) == x.t = "fin" /\ x.n = 0

\* x >= 0
GeZero(x) == (x.t = "fin" /\ x.n >= 0) \/ (x.t = "inf" /\ x.n = 1)

\* x || 0 : NaN and 0 are falsy.
OrZero(x) == IF isNaN(x) \/ IsZero(x) THEN Zero ELSE x

IsDigit(c) == IndexIn(Digits, c) > 0

DigitVal(c) == IndexIn(Digits, c) - 1

\* The longest prefix of s made of decimal digits.
RECURSIVE TakeDigits(_)
TakeDigits(s) ==
  IF s # <<>> /\ IsDigit(Head(s)) THEN <<Head(s)>> \o TakeDigits(Tail(s)) ELSE <<>>

RECURSIVE DigitsValue(_)
DigitsValue(ds) ==
  IF ds = <<>> THEN 0 ELSE 10 * DigitsValue(SubSeq(ds, 1, Len(ds) - 1)) + DigitVal(ds[Len(ds)])

Drop(s, k) == SubSeq(s, k + 1, Len(s))

InfinityLit == <<"I","n","f","i","n","i","t","y">>

\* The longest prefix of s that is an unsigned StrDecimalLiteral without
\* exponent part (digits, digits.digits, digits., .digits), as
\* [ok, val, rest]; ok is FALSE when no prefix is one.
UnsignedPrefix(s) ==
  IF StartsWith(s, InfinityLit)
  THEN [ok |-> TRUE, val |-> Inf(1), rest |-> Drop(s, Len(InfinityLit))]
  ELSE
    LET ip == TakeDigits(s)
        r1 == Drop(s, Len(ip))
        fp == IF r1 # <<>> /\ Head(r1) = "." THEN TakeDigits(Tail(r1)) ELSE <<>>
        dot == r1 # <<>> /\ Head(r1) = "." /\ (ip # <<>> \/ fp # <<>>)
        r2 == IF dot THEN Drop(r1, 1 + Len(fp)) ELSE r1
    IN  IF ip = <<>> /\ fp = <<>>
        THEN [ok |-> FALSE, val |-> NaN, rest |-> s]
        ELSE [ok |-> TRUE,
              val |-> Fin(DigitsValue(ip \o fp), Len(fp)),
              rest |-> r2]

SignedPrefix(s) ==
  IF s # <<>> /\ Head(s) = "-"
  THEN LET p == UnsignedPrefix(Tail(s))
       IN  [ok |-> p.ok, val |-> Negate(p.val), rest |-> p.rest]
  ELSE IF s # <<>> /\ Head(s) = "+" THEN UnsignedPrefix(Tail(s))
  ELSE UnsignedPrefix(s)

\* parseFloat(s): skip leading white space, then the longest numeric prefix;
\* NaN when there is none.  (Exponent parts are outside the modelled cell
\* alphabet.)
parseFloat(s) ==
  LET p == SignedPrefix(TrimStart(s))
  IN  IF p.ok THEN p.val ELSE NaN

\* Number(s): the trimmed string must be empty (0) or a numeric literal as
\* a whole; NaN otherwise.  (Exponent and radix-prefixed literals are outside
\* the modelled cell alphabet.)
Number(s) ==
  LET t == trim(s)
      p == SignedPrefix(t)
  IN  IF t = <<>> THEN Zero
      ELSE IF p.ok /\ p.rest = <<>> THEN p.val
      ELSE NaN

\* The decimal digits of a natural number.
RECURSIVE NatToString(_)
NatToString(n) ==
  IF n < 10 THEN <<Digits[n + 1]>>
  ELSE NatToString(n \div 10) \o <<Digits[(n % 10) + 1]>>

RECURSIVE PadLeft(_, _)
PadLeft(ds, w) == IF Len(ds) >= w THEN ds ELSE PadLeft(<<"0">> \o ds, w)

\* String(x) for a number x.
NumberToString(x) ==
  IF x.t = "nan" THEN <<"N","a","N">>
  ELSE IF x.t = "inf" THEN (IF x.n = 1 THEN InfinityLit ELSE <<"-">> \o InfinityLit)
  ELSE LET a  == IF x.n < 0 THEN -x.n ELSE x.n
           sg == IF x.n < 0 THEN <<"-">> ELSE <<>>
           ip == NatToString(a \div Pow10(x.e))
           fp == PadLeft(NatToString(a % Pow10(x.e)), x.e)
       IN  IF x.e = 0 THEN sg \o ip ELSE sg \o ip \o <<".">> \o fp

(***************************************************************************)
(* Cells of a sheet: null, a string, a number; undefined is what reading   *)
(* past the end of a row gives.                                            *)
(***************************************************************************)
Null == [k |-> "null", s |-> <<>>, v |-> Zero]

Undefined == [k |-> "undefined", s |-> <<>>, v |-> Zero]

Str(s) == [k |-> "str", s |-> s, v |-> Zero]

Num(n, e) == [k |-> "num", s |-> <<>>, v |-> Fin(n, e)]

NumCell(x) == [k |-> "num", s |-> <<>>, v |-> x]

\* String(val)
String(c) ==
  IF c.k = "null" THEN <<"n","u","l","l">>
  ELSE IF c.k = "undefined" THEN <<"u","n","d","e","f","i","n","e","d">>
  ELSE IF c.k = "str" THEN c.s
  ELSE NumberToString(c.v)

\* row[j] with a 0-based index j: undefined past the end of the row.
At(row, j) == IF j + 1 \in 1..Len(row) THEN row[j + 1] ELSE Undefined

\* !!val
Truthy(c) ==
  IF c.k = "str" THEN c.s # <<>>
  ELSE IF c.k = "num" THEN ~isNaN(c.v) /\ ~IsZero(c.v)
  ELSE FALSE

\* ExcelViewer.tsx isNumeric
isNumeric(val) ==
  IF val = Null \/ val = Str(<<>>) THEN FALSE
  ELSE ~isNaN(Number(replaceCommas(String(val))))

(***************************************************************************)
(* services/excelParser.ts                                                 *)
(***************************************************************************)
K_SYMBOL == <<"S","Y","M","B","O","L">>

K_ACQUIRER == <<"N","A","M","E"," ","O","F"," ","T","H","E"," ","A","C","Q","U","I","R","E","R","/","D","I","S","P","O","S","E","R">>

K_NUMSEC == <<"N","O","."," ","O","F"," ","S","E","C","U","R","I","T","I","E","S"," ","(","A","C","Q","U","I","R","E","D","/","D","I","S","C","L","O","S","E","D",")">>

K_VALUE == <<"V","A","L","U","E"," ","O","F"," ","S","E","C","U","R","I","T","Y"," ","(","A","C","Q","U","I","R","E","D","/","D","I","S","C","L","O","S","E","D",")">>

K_TYPE == <<"A","C","Q","U","I","S","I","T","I","O","N","/","D","I","S","P","O","S","A","L"," ","T","R","A","N","S","A","C","T","I","O","N"," ","T","Y","P","E">>

K_DATE == <<"D","A","T","E"," ","O","F"," ","A","L","L","O","T","M","E","N","T","/","A","C","Q","U","I","S","I","T","I","O","N"," ","F","R","O","M">>
\* EXCEL_HEADER_MAPPING[h]: the field a canonical header maps to, "" when
\* the header is not a key of the dictionary.
EXCEL_HEADER_MAPPING(h) ==
  IF h = K_SYMBOL THEN "symbol"
  ELSE IF h = K_ACQUIRER THEN "acquirerDisposer"
  ELSE IF h = K_NUMSEC THEN "numSecurities"
  ELSE IF h = K_VALUE THEN "value"
  ELSE IF h = K_TYPE THEN "transactionType"
  ELSE IF h = K_DATE THEN "date"
  ELSE ""

FieldNames ==
  {"symbol", "acquirerDisposer", "numSecurities", "value", "transactionType", "date"}

\* const sanitizeKey = (key) => key.trim().toUpperCase()
sanitizeKey(key) == toUpperCase(trim(key))

\* A workbook as XLSX.read gives it: the sheets in SheetNames order, each
\* with its sheet_to_json(header: 1, defval: null) matrix.  rawData keeps
\* the same shape: Object.keys(rawData) is the sequence of names.
SheetNames(rawData) == [i \in 1..Len(rawData) |-> rawData[i].name]

\* rawData[sheetName]; <<>> stands for "no such key".
SheetOf(rawData, sheetName) ==
  IF \E i \in 1..Len(rawData) : rawData[i].name = sheetName
  THEN rawData[CHOOSE i \in 1..Len(rawData) : rawData[i].name = sheetName].rows
  ELSE <<>>

\* headers = firstSheetJsonData[0].map(h => sanitizeKey(String(h)))
HeadersOf(headerRow) == [i \in 1..Len(headerRow) |-> sanitizeKey(String(headerRow[i]))]

\* headers.map(h => EXCEL_HEADER_MAPPING[h]).filter(Boolean)
mappedHeaders(headers) ==
  SelectSeq([i \in 1..Len(headers) |-> EXCEL_HEADER_MAPPING(headers[i])],
            LAMBDA f : f # "")

MinMappedHeaders == 3

EmptyTransaction == [f \in FieldNames |-> Undefined]

\* The headers.forEach body for the columns index..Len(headers)-1 (0-based),
\* threading the partial transaction and the isValidRow flag.
RECURSIVE FillRow(_, _, _, _)
FillRow(headers, row, index, acc) ==
  IF index >= Len(headers) THEN acc
  ELSE
    LET mappedKey == EXCEL_HEADER_MAPPING(headers[index + 1])
        cellValue == At(row, index)
    IN  IF mappedKey # "" /\ cellValue # Null
        THEN LET stored ==
                   IF mappedKey = "value" \/ mappedKey = "numSecurities"
                   THEN NumCell(OrZero(parseFloat(replaceCommas(String(cellValue)))))
                   ELSE cellValue
             IN  FillRow(headers, row, index + 1,
                         [t |-> [acc.t EXCEPT ![mappedKey] = stored], isValidRow |-> TRUE])
        ELSE FillRow(headers, row, index + 1, acc)

RowToTransaction(headers, row) ==
  FillRow(headers, row, 0, [t |-> EmptyTransaction, isValidRow |-> FALSE])

\* t.value >= 0 : false when value is undefined.
ValueGeZero(c) == c.k = "num" /\ GeZero(c.v)

\* .filter(t => t !== null && !!t.symbol && t.value >= 0)
KeepTransaction_NoValueTest(r) == r.isValidRow /\ Truthy(r.t.symbol)

KeepTransaction(r) == r.isValidRow /\ Truthy(r.t.symbol) /\ ValueGeZero(r.t.value)

ExtractTransactions(headers, dataRows) ==
  LET mapped == [i \in 1..Len(dataRows) |-> RowToTransaction(headers, dataRows[i])]
      kept   == SelectSeq(mapped, KeepTransaction)
  IN  [i \in 1..Len(kept) |-> kept[i].t]

ParseFailedMessage == "Failed to parse the Excel file."

\* parseExcelFile: what the promise settles with.  A file that XLSX.read
\* cannot decode throws inside the try block, like the schema check.
\* parseExcelFile without the early return for a first sheet that has no
\* data rows.
parseExcelFile_NoRowCountTest(file) ==
  IF ~file.decodes \/ (Len(file.workbook) > 0 /\ Len(file.workbook[1].rows) = 0)
  THEN [ok |-> FALSE, message |-> ParseFailedMessage, transactions |-> <<>>, rawData |-> <<>>]
  ELSE IF Len(file.workbook) = 0
  THEN [ok |-> TRUE, message |-> "", transactions |-> <<>>, rawData |-> <<>>]
  ELSE LET firstSheetJsonData == file.workbook[1].rows
           headers == HeadersOf(firstSheetJsonData[1])
       IN  IF Len(mappedHeaders(headers)) < MinMappedHeaders
           THEN [ok |-> FALSE, message |-> ParseFailedMessage,
                 transactions |-> <<>>, rawData |-> <<>>]
           ELSE [ok |-> TRUE, message |-> "",
                 transactions |-> ExtractTransactions(headers, Tail(firstSheetJsonData)),
                 rawData |-> file.workbook]

parseExcelFile(file) ==
  IF ~file.decodes THEN [ok |-> FALSE, message |-> ParseFailedMessage,
                         transactions |-> <<>>, rawData |-> <<>>]
  ELSE
    LET rawData == file.workbook
    IN  IF Len(rawData) = 0
        THEN [ok |-> TRUE, message |-> "", transactions |-> <<>>, rawData |-> <<>>]
        ELSE
          LET firstSheetJsonData == rawData[1].rows
          IN  IF Len(firstSheetJsonData) < 2
              THEN [ok |-> TRUE, message |-> "", transactions |-> <<>>, rawData |-> rawData]
              ELSE
                LET headers == HeadersOf(firstSheetJsonData[1])
                IN  IF Len(mappedHeaders(headers)) < MinMappedHeaders
                    THEN [ok |-> FALSE, message |-> ParseFailedMessage,
                          transactions |-> <<>>, rawData |-> <<>>]
                    ELSE [ok |-> TRUE, message |-> "",
                          transactions |-> ExtractTransactions(headers, Tail(firstSheetJsonData)),
                          rawData |-> rawData]

(***************************************************************************)
(* ExcelViewer.tsx: derived values of one render                           *)
(***************************************************************************)
\* row.some(cell => cell !== null && String(cell).toLowerCase().includes(f))
RowMatches_NoNullTest(row, lowercasedFilter) ==
  \E i \in 1..Len(row) : includes(toLowerCase(String(row[i])), lowercasedFilter)

RowMatches(row, lowercasedFilter) ==
  \E i \in 1..Len(row) :
     row[i] # Null /\ includes(toLowerCase(String(row[i])), lowercasedFilter)

\* The loop body of filteredData for one sheet.
FilterSheet_LosesHeader(sheetData, lowercasedFilter) ==
  IF Len(sheetData) = 0 THEN <<>>
  ELSE SelectSeq(Tail(sheetData), LAMBDA row : RowMatches(row, lowercasedFilter))

FilterSheet(sheetData, lowercasedFilter) ==
  IF Len(sheetData) = 0 THEN <<>>
  ELSE LET headers == sheetData[1]
           dataRows == Tail(sheetData)
           filteredRows == SelectSeq(dataRows, LAMBDA row : RowMatches(row, lowercasedFilter))
       IN  <<headers>> \o filteredRows

\* const filteredData = useMemo(...)
filteredData(rawData, searchTerm) ==
  IF searchTerm = <<>> THEN rawData
  ELSE LET lowercasedFilter == toLowerCase(searchTerm)
       IN  [i \in 1..Len(rawData) |->
              [name |-> rawData[i].name,
               rows |-> FilterSheet(rawData[i].rows, lowercasedFilter)]]

\* filteredData[activeSheet] || []
activeSheetData(rawData, searchTerm, activeSheet) ==
  SheetOf(filteredData(rawData, searchTerm), activeSheet)

\* activeSheetData[0] || []
headersOf(sheetData) == IF Len(sheetData) = 0 THEN <<>> ELSE sheetData[1]

\* activeSheetData.slice(1)
dataRowsOf(sheetData) == IF Len(sheetData) = 0 THEN <<>> ELSE Tail(sheetData)

SampleRows == 20

Min(a, b) == IF a < b THEN a ELSE b

\* summableColumns without the cap on the sampled rows.
summableColumns_AllRows(dataRows, headersLength) ==
  IF Len(dataRows) = 0 THEN {}
  ELSE {j \in 0..(headersLength - 1) :
          \A i \in 1..Len(dataRows) :
             ~(At(dataRows[i], j) # Null /\ At(dataRows[i], j) # Str(<<>>)
               /\ ~isNumeric(At(dataRows[i], j)))}

\* const summableColumns = useMemo(...): the set of 0-based column indices
\* whose checks[j] is still true after the sampled rows.
summableColumns(dataRows, headersLength) ==
  IF Len(dataRows) = 0 THEN {}
  ELSE {j \in 0..(headersLength - 1) :
          \A i \in 1..Min(Len(dataRows), SampleRows) :
             ~(At(dataRows[i], j) # Null /\ At(dataRows[i], j) # Str(<<>>)
               /\ ~isNumeric(At(dataRows[i], j)))}

\* The updater of toggleColumnSum: new Set(prev), delete or add, Array.from.
\* A Set keeps insertion order, so an added index goes last.
ToggledSelection_Sorted(prev, colIndex) ==
  LET keep == {prev[i] : i \in 1..Len(prev)}
      s == IF colIndex \in keep THEN keep \ {colIndex} ELSE keep \cup {colIndex}
  IN  [i \in 1..Cardinality(s) |->
         CHOOSE c \in s : Cardinality({d \in s : d < c}) = i - 1]

ToggledSelection(prev, colIndex) ==
  IF \E i \in 1..Len(prev) : prev[i] = colIndex
  THEN SelectSeq(prev, LAMBDA c : c # colIndex)
  ELSE Append(prev, colIndex)

\* The inner loop of totals: columnTotal += parseFloat(String(cell).replace(/,/g,'')) || 0
RECURSIVE ColumnTotal(_, _)
ColumnTotal(dataRows, colIndex) ==
  IF dataRows = <<>> THEN Zero
  ELSE LET init == SubSeq(dataRows, 1, Len(dataRows) - 1)
           cellValue == At(dataRows[Len(dataRows)], colIndex)
       IN  Add(ColumnTotal(init, colIndex),
               OrZero(parseFloat(replaceCommas(String(cellValue)))))

\* const totals = useMemo(...): null, or the Map from each selected column
\* to its total.
totals(dataRows, selectedColumnsForSum) ==
  IF Len(selectedColumnsForSum) = 0 \/ Len(dataRows) = 0
  THEN [isNull |-> TRUE, map |-> <<>>]
  ELSE [isNull |-> FALSE,
        map |-> [i \in 1..Len(selectedColumnsForSum) |->
                   [col |-> selectedColumnsForSum[i],
                    total |-> ColumnTotal(dataRows, selectedColumnsForSum[i])]]]

\* totals.get(colIndex); the map has one entry per selected column.
TotalOf(tot, colIndex) ==
  tot.map[CHOOSE i \in 1..Len(tot.map) : tot.map[i].col = colIndex].total

RECURSIVE GCD(_, _)
GCD(a, b) == IF b = 0 THEN a ELSE GCD(b, a % b)

Abs(a) == IF a < 0 THEN -a ELSE a

\* total1 / total2 for total2 # 0, as an exact reduced fraction num/den.
Divide(x, y) ==
  IF isNaN(x) \/ isNaN(y) \/ (x.t = "inf" /\ y.t = "inf")
  THEN [kind |-> "NaN", num |-> 0, den |-> 1]
  ELSE IF x.t = "inf"
  THEN [kind |-> "Infinity", num |-> (IF y.n < 0 THEN -x.n ELSE x.n), den |-> 1]
  ELSE IF y.t = "inf" THEN [kind |-> "number", num |-> 0, den |-> 1]
  ELSE LET a == x.n * Pow10(y.e)
           b == y.n * Pow10(x.e)
           g == GCD(Abs(a), Abs(b))
           s == IF b < 0 THEN -1 ELSE 1
       IN  [kind |-> "number", num |-> (s * a) \div g, den |-> (s * b) \div g]

NotApplicable == [kind |-> "N/A", num |-> 0, den |-> 1]

NoDivision == [isNull |-> TRUE, total1 |-> Zero, total2 |-> Zero, result |-> NotApplicable]

\* const divisionResult = useMemo(...)
divisionResult_ZeroTestOnFirst(selectedColumnsForSum, tot) ==
  IF Len(selectedColumnsForSum) # 2 \/ tot.isNull THEN NoDivision
  ELSE LET total1 == TotalOf(tot, selectedColumnsForSum[1])
           total2 == TotalOf(tot, selectedColumnsForSum[2])
       IN  IF IsZero(total1) \/ IsZero(total2)
           THEN [isNull |-> FALSE, total1 |-> total1, total2 |-> total2,
                 result |-> NotApplicable]
           ELSE [isNull |-> FALSE, total1 |-> total1, total2 |-> total2,
                 result |-> Divide(total1, total2)]

divisionResult(selectedColumnsForSum, tot) ==
  IF Len(selectedColumnsForSum) # 2 \/ tot.isNull THEN NoDivision
  ELSE LET total1 == TotalOf(tot, selectedColumnsForSum[1])
           total2 == TotalOf(tot, selectedColumnsForSum[2])
       IN  IF IsZero(total2)
           THEN [isNull |-> FALSE, total1 |-> total1, total2 |-> total2,
                 result |-> NotApplicable]
           ELSE [isNull |-> FALSE, total1 |-> total1, total2 |-> total2,
                 result |-> Divide(total1, total2)]


(***************************************************************************)
(* App (excelParser.ts lines 187-337): processData                         *)
(***************************************************************************)
\* acc.set(curr.symbol, (acc.get(curr.symbol) || 0) + curr.value): a Map
\* keeps the position of a key that is set again.
SummaryPut(acc, curr) ==
  IF \E i \in 1..Len(acc) : acc[i].symbol = curr.symbol
  THEN [i \in 1..Len(acc) |->
          IF acc[i].symbol = curr.symbol
          THEN [symbol |-> acc[i].symbol,
                totalValue |-> Add(OrZero(acc[i].totalValue), curr.value.v)]
          ELSE acc[i]]
  ELSE Append(acc, [symbol |-> curr.symbol, totalValue |-> Add(Zero, curr.value.v)])

\* data.reduce(..., new Map()); the accumulator of each round is a value,
\* bound once.
RECURSIVE SummaryMap(_)
SummaryMap(data) ==
  IF data = <<>> THEN <<>>
  ELSE CHOOSE next \in {SummaryPut(acc, data[Len(data)]) :
                           acc \in {SummaryMap(SubSeq(data, 1, Len(data) - 1))}} : TRUE

\* (a, b) => b.totalValue - a.totalValue, as a sign: 1, -1, or 0 (also NaN).
Positive(x) == (x.t = "fin" /\ x.n > 0) \/ (x.t = "inf" /\ x.n = 1)

ByValueDesc_Ascending(a, b) ==
  LET d == Add(a.totalValue, Negate(b.totalValue))
  IN  IF Positive(d) THEN 1 ELSE IF Positive(Negate(d)) THEN -1 ELSE 0

ByValueDesc(a, b) ==
  LET d == Add(b.totalValue, Negate(a.totalValue))
  IN  IF Positive(d) THEN 1 ELSE IF Positive(Negate(d)) THEN -1 ELSE 0

\* Array.prototype.sort is stable: insert each entry after every entry that
\* the comparator does not put behind it.
RECURSIVE InsertByValue(_, _)
InsertByValue(sorted, x) ==
  IF sorted # <<>> /\ ByValueDesc(sorted[Len(sorted)], x) > 0
  THEN Append(InsertByValue(SubSeq(sorted, 1, Len(sorted) - 1), x), sorted[Len(sorted)])
  ELSE Append(sorted, x)

RECURSIVE SortByValue(_)
SortByValue(entries) ==
  IF entries = <<>> THEN <<>>
  ELSE CHOOSE next \in {InsertByValue(sorted, entries[Len(entries)]) :
                           sorted \in {SortByValue(SubSeq(entries, 1, Len(entries) - 1))}} : TRUE

sortedSummary(data) ==
  CHOOSE sorted \in {SortByValue(entries) : entries \in {SummaryMap(data)}} : TRUE

InsightTop == 10

\* sortedSummary.slice(0, 10)
Slice(s, n) == SubSeq(s, 1, Min(Len(s), n))

(***************************************************************************)
(* State                                                                   *)
(***************************************************************************)
VARIABLES
  \* App state (useState hooks of App)
  transactions, summary, geminiInsight, rawExcelData, isViewerOpen, isLoading,
  error, fileName,
  \* the handleFileUpload calls in flight: their file and where they wait
  \* (promise is what the pending parseExcelFile(file) settles with; history:
  \* alone tells that no earlier call was still running when this one
  \* started)
  tasks,
  \* ExcelViewer: the rawData prop and its useState hooks
  rawData, activeSheet, searchTerm, selectedColumnsForSum,
  \* the "reset selections" effect is scheduled but has not run yet
  effectPending,
  \* history: a logical clock of effective toggles and, per column, the time
  \* its current selection was made (0 when not selected)
  clock, selectedAt,
  \* parseExcelFile applied to one first sheet
  exSheet, exResult,
  \* the search filter applied once and twice to one workbook
  fRaw, fTerm, fOnce, fTwice, fpc,
  \* column-type inference applied to one view, and to that view after a
  \* cell of a late row was changed
  iRows, iWidth, iSummable, iEdited, iSummableEdited, ipc,
  \* isNumeric applied to one cell
  nCell, nNumeric, npc,
  \* the summary step of processData applied to one transaction list
  sData, sSummary, spc,
  \* DataTable: the transactions prop and its useState hooks
  dTransactions, filter, sortKey, sortOrder, currentPage

appVars == <<transactions, summary, geminiInsight, rawExcelData, isViewerOpen,
             isLoading, error, fileName, tasks>>

viewerVars == <<rawData, activeSheet, searchTerm, selectedColumnsForSum,
                effectPending, clock, selectedAt>>

exVars == <<exSheet, exResult>>

fVars == <<fRaw, fTerm, fOnce, fTwice, fpc>>

iVars == <<iRows, iWidth, iSummable, iEdited, iSummableEdited, ipc>>

nVars == <<nCell, nNumeric, npc>>

sVars == <<sData, sSummary, spc>>

dVars == <<dTransactions, filter, sortKey, sortOrder, currentPage>>

vars == <<appVars, viewerVars, exVars, fVars, iVars, nVars, sVars, dVars>>

(***************************************************************************)
(* Inputs                                                                  *)
(***************************************************************************)
S_TCS == <<"T","C","S">>

S_INFY == <<"I","N","F","Y">>

S_Buy == <<"B","u","y">>

S_Sell == <<"S","e","l","l">>

\* " symbol " : a known label that needs trimming and upper-casing
S_symbolLoose == <<" ","s","y","m","b","o","l"," ">>

S_valueLoose == <<"V","a","l","u","e"," ","o","f"," ","S","e","c","u","r","i","t","y"," ","(","A","c","q","u","i","r","e","d","/","D","i","s","c","l","o","s","e","d",")"," ">>

S_Remarks == <<"R","e","m","a","r","k","s">>

S_1000 == <<"1",",","0","0","0">>

S_12a == <<"1","2","a">>

S_abc == <<"a","b","c">>

H_SYM == Str(K_SYMBOL)

H_VAL == Str(K_VALUE)

H_TYP == Str(K_TYPE)

H_NUM == Str(K_NUMSEC)

\* The sheets of the uploaded workbooks.
TradesSheet ==
  <<<<H_SYM, H_VAL, H_TYP>>,
    <<Str(S_TCS), Num(100, 0), Str(S_Buy)>>,
    <<Str(S_TCS), Str(S_1000), Str(S_Buy)>>,
    <<Str(S_INFY), Num(200, 0), Str(S_Sell)>>>>

NotesSheet ==
  <<<<Str(S_Remarks), Str(S_abc)>>,
    <<Str(S_abc), Num(5, 0)>>>>

\* Data rows under a header row with two known fields only.
TwoFieldSheet ==
  <<<<H_SYM, H_VAL, Str(S_Remarks)>>,
    <<Str(S_TCS), Num(100, 0), Str(S_abc)>>>>

HeaderOnlySheet == <<<<H_SYM, H_VAL, H_TYP>>>>

\* A matching header row whose rows are all dropped.
DroppedSheet ==
  <<<<H_SYM, H_VAL, H_TYP>>,
    <<Null, Null, Null>>,
    <<Str(S_TCS), Num(-5, 0), Str(S_Sell)>>>>

Sheet(name, rows) == [name |-> name, rows |-> rows]

File(name, decodes, workbook) == [name |-> name, decodes |-> decodes, workbook |-> workbook]

Files ==
  { File("trades.xlsx", TRUE, <<Sheet("Trades", TradesSheet), Sheet("Notes", NotesSheet)>>),
    File("twofields.xlsx", TRUE, <<Sheet("Data", TwoFieldSheet), Sheet("Notes", NotesSheet)>>),
    File("header.xlsx", TRUE, <<Sheet("Trades", HeaderOnlySheet), Sheet("Notes", NotesSheet)>>),
    File("dropped.xlsx", TRUE, <<Sheet("Trades", DroppedSheet)>>),
    File("empty.xlsx", TRUE, <<>>),
    File("corrupt.xlsx", FALSE, <<>>) }

\* How many handleFileUpload calls one behaviour starts.
MaxUploads == 2

(***************************************************************************)
(* App: handlers                                                           *)
(***************************************************************************)
NoRaw == [isNull |-> TRUE, data |-> <<>>]

Raw(data) == [isNull |-> FALSE, data |-> data]

NoDataMessage == "No valid data found in the file."

InsightFailedMessage == "Could not fetch AI insights."

\* const hasData = transactions.length > 0 ||
\*                 (rawExcelData && Object.keys(rawExcelData).length > 0)
hasData == Len(transactions) > 0 \/ (~rawExcelData.isNull /\ Len(rawExcelData.data) > 0)

\* The DataTable, with its "View Original" button, is rendered.
DataTableShown == fileName # "" /\ ~isLoading /\ error = "" /\ hasData

\* <ExcelViewer> is rendered.
ViewerShown == isViewerOpen /\ ~rawExcelData.isNull

AppInit ==
  /\ transactions = <<>>
  /\ summary = <<>>
  /\ geminiInsight = <<>>
  /\ rawExcelData = NoRaw
  /\ isViewerOpen = FALSE
  /\ isLoading = FALSE
  /\ error = ""
  /\ fileName = ""
  /\ tasks = <<>>

\* handleFileUpload up to its first await, parseExcelFile(file) called.
\* FileUpload is rendered only while fileName is empty.
handleFileUpload(file) ==
  /\ fileName = ""
  /\ Len(tasks) < MaxUploads
  /\ isLoading' = TRUE
  /\ error' = ""
  /\ transactions' = <<>>
  /\ summary' = <<>>
  /\ geminiInsight' = <<>>
  /\ rawExcelData' = NoRaw
  /\ fileName' = file.name
  /\ tasks' = Append(tasks, [file |-> file, pc |-> "parsing", request |-> <<>>,
                             alone |-> \A j \in 1..Len(tasks) : tasks[j].pc = "done",
                             promise |-> parseExcelFile(file)])
  /\ UNCHANGED isViewerOpen

\* ParseRejected without the finally block.
ParseRejected_NoFinally(i, r) ==
  /\ ~r.ok
  /\ error' = r.message
  /\ tasks' = [tasks EXCEPT ![i].pc = "done"]
  /\ UNCHANGED <<transactions, summary, geminiInsight, rawExcelData, isViewerOpen,
                 isLoading, fileName>>

\* parseExcelFile rejects with r: the catch and finally blocks of
\* handleFileUpload.
ParseRejected(i, r) ==
  /\ ~r.ok
  /\ error' = r.message
  /\ isLoading' = FALSE
  /\ tasks' = [tasks EXCEPT ![i].pc = "done"]
  /\ UNCHANGED <<transactions, summary, geminiInsight, rawExcelData, isViewerOpen, fileName>>

\* ParseResolvedEmpty reporting "no valid data" whatever the raw data hold.
ParseResolvedEmpty_AlwaysError(i, r) ==
  /\ r.ok
  /\ Len(r.transactions) = 0
  /\ rawExcelData' = Raw(r.rawData)
  /\ transactions' = <<>>
  /\ summary' = <<>>
  /\ error' = NoDataMessage
  /\ isLoading' = FALSE
  /\ tasks' = [tasks EXCEPT ![i].pc = "done"]
  /\ UNCHANGED <<geminiInsight, isViewerOpen, fileName>>

\* parseExcelFile resolves with r, without transactions: processData
\* returns at once, and handleFileUpload runs to its end.
ParseResolvedEmpty(i, r) ==
  /\ r.ok
  /\ Len(r.transactions) = 0
  /\ rawExcelData' = Raw(r.rawData)
  /\ transactions' = <<>>
  /\ summary' = <<>>
  /\ error' = (IF Len(r.rawData) = 0 THEN NoDataMessage ELSE error)
  /\ isLoading' = FALSE
  /\ tasks' = [tasks EXCEPT ![i].pc = "done"]
  /\ UNCHANGED <<geminiInsight, isViewerOpen, fileName>>

\* parseExcelFile resolves with r, with transactions: processData up to its
\* await of getFinancialInsights.
ParseResolved(i, r) ==
  /\ r.ok
  /\ Len(r.transactions) > 0
  /\ rawExcelData' = Raw(r.rawData)
  /\ transactions' = r.transactions
  /\ \E sorted \in {sortedSummary(r.transactions)} :
        /\ summary' = sorted
        /\ tasks' = [tasks EXCEPT ![i].pc = "insights",
                                  ![i].request = Slice(sorted, InsightTop)]
  /\ UNCHANGED <<geminiInsight, isViewerOpen, isLoading, error, fileName>>

\* The promise of parseExcelFile settles for the i-th upload, and the code
\* after "await parseExcelFile(file)" runs.
ParseSettled(i) ==
  /\ i \in 1..Len(tasks)
  /\ tasks[i].pc = "parsing"
  /\ \E r \in {tasks[i].promise} :
        \/ ParseRejected(i, r)
        \/ ParseResolvedEmpty(i, r)
        \/ ParseResolved(i, r)

\* getFinancialInsights resolves; the response is opaque and stands for the
\* request it answers.  Then the rest of handleFileUpload.
InsightsResolved(i) ==
  /\ i \in 1..Len(tasks)
  /\ tasks[i].pc = "insights"
  /\ geminiInsight' = <<[of |-> tasks[i].request]>>
  /\ isLoading' = FALSE
  /\ tasks' = [tasks EXCEPT ![i].pc = "done"]
  /\ UNCHANGED <<transactions, summary, rawExcelData, isViewerOpen, error, fileName>>

\* getFinancialInsights rejects (no API key, or the call fails).
InsightsRejected(i) ==
  /\ i \in 1..Len(tasks)
  /\ tasks[i].pc = "insights"
  /\ error' = InsightFailedMessage
  /\ geminiInsight' = <<>>
  /\ isLoading' = FALSE
  /\ tasks' = [tasks EXCEPT ![i].pc = "done"]
  /\ UNCHANGED <<transactions, summary, rawExcelData, isViewerOpen, fileName>>

\* "Analyze New File", shown while fileName is not empty.
resetState ==
  /\ fileName # ""
  /\ transactions' = <<>>
  /\ summary' = <<>>
  /\ geminiInsight' = <<>>
  /\ error' = ""
  /\ fileName' = ""
  /\ rawExcelData' = NoRaw
  /\ isViewerOpen' = FALSE
  /\ UNCHANGED <<isLoading, tasks>>

\* onViewRawFile: the "View Original" button of the DataTable.
OpenViewer ==
  /\ DataTableShown
  /\ ~isViewerOpen
  /\ isViewerOpen' = TRUE
  /\ UNCHANGED <<transactions, summary, geminiInsight, rawExcelData, isLoading,
                 error, fileName, tasks>>

\* onClose of the ExcelViewer.
CloseViewer ==
  /\ ViewerShown
  /\ isViewerOpen' = FALSE
  /\ UNCHANGED <<transactions, summary, geminiInsight, rawExcelData, isLoading,
                 error, fileName, tasks>>



(***************************************************************************)
(* ExcelViewer: state machine                                              *)
(***************************************************************************)
S_Sym == <<"S","y","m">>

S_Qty == <<"Q","t","y">>

S_Val == <<"V","a","l">>

S_buy == <<"b","u","y">>

S_Tx == <<"T","x">>

S_m15 == <<"-","1","5">>

T_T == <<"T">>

T_1 == <<"1">>

T_zz == <<"z","z">>

ViewerTrades ==
  <<<<Str(S_Sym), Str(S_Qty), Str(S_Val)>>,
    <<Str(S_TCS), Num(1, 0), Str(S_1000)>>,
    <<Str(S_buy), Str(S_12a), Num(20, 0)>>,
    <<Str(S_Tx), Null, Num(-1020, 0)>>>>

\* Three numeric columns; the second data row is shorter than the header.
ViewerRates ==
  <<<<Str(S_Sym), Str(S_Qty), Str(S_Val)>>,
    <<Num(5, 0), Num(25, 1), Num(0, 0)>>,
    <<Num(10, 0)>>,
    <<Str(S_m15), Str(<<>>), Null>>>>

ViewerBooks ==
  { <<Sheet("Trades", ViewerTrades), Sheet("Rates", ViewerRates)>>,
    <<Sheet("Rates", ViewerRates), Sheet("Empty", <<>>), Sheet("Head", HeaderOnlySheet)>>,
    <<>> }

SearchTerms == {<<>>, T_T, T_1, T_zz}

\* How many effective toggles one behaviour makes.
MaxToggles == 4

\* The values one render of ExcelViewer derives from its state.
curSheetData == activeSheetData(rawData, searchTerm, activeSheet)

curHeaders == headersOf(curSheetData)

curDataRows == dataRowsOf(curSheetData)

curSummable == summableColumns(curDataRows, Len(curHeaders))

curTotals == totals(curDataRows, selectedColumnsForSum)

curDivision == divisionResult(selectedColumnsForSum, curTotals)

NoStamps == [c \in {} |-> 0]

ViewerIdle ==
  /\ rawData = <<>>
  /\ activeSheet = ""
  /\ searchTerm = <<>>
  /\ selectedColumnsForSum = <<>>
  /\ effectPending = FALSE
  /\ clock = 0
  /\ selectedAt = NoStamps

\* useState(sheetNames[0] || ''), useState(''), useState([])
ViewerInit ==
  /\ rawData \in ViewerBooks
  /\ activeSheet = (IF Len(rawData) > 0 THEN rawData[1].name ELSE "")
  /\ searchTerm = <<>>
  /\ selectedColumnsForSum = <<>>
  /\ effectPending = FALSE
  /\ clock = 0
  /\ selectedAt = NoStamps

\* onChange of the search box: setSearchTerm(e.target.value)
setSearchTerm(term) ==
  /\ ~effectPending
  /\ searchTerm' = term
  /\ UNCHANGED <<rawData, activeSheet, selectedColumnsForSum, effectPending, clock, selectedAt>>

\* onClick of a sheet tab: setActiveSheet(name).  The render that follows
\* has the new activeSheet and the old selection; the effect with
\* dependency [activeSheet] runs after that render is committed.
setActiveSheet(name) ==
  /\ ~effectPending
  /\ activeSheet' = name
  /\ effectPending' = (name # activeSheet)
  /\ UNCHANGED <<rawData, searchTerm, selectedColumnsForSum, clock, selectedAt>>

\* useEffect(() => { setSelectedColumnsForSum([]); }, [activeSheet])
ResetSelectionsEffect ==
  /\ effectPending
  /\ selectedColumnsForSum' = <<>>
  /\ selectedAt' = NoStamps
  /\ effectPending' = FALSE
  /\ UNCHANGED <<rawData, activeSheet, searchTerm, clock>>

\* toggleColumnSum(colIndex) on a column of the rendered header row.
toggleColumnSum(colIndex) ==
  /\ ~effectPending
  /\ colIndex \in 0..(Len(curHeaders) - 1)
  /\ IF colIndex \notin curSummable
     THEN UNCHANGED <<selectedColumnsForSum, clock, selectedAt>>
     ELSE /\ clock < MaxToggles
          /\ selectedColumnsForSum' = ToggledSelection(selectedColumnsForSum, colIndex)
          /\ clock' = clock + 1
          /\ selectedAt' =
               IF colIndex \in DOMAIN selectedAt
               THEN [c \in DOMAIN selectedAt \ {colIndex} |-> selectedAt[c]]
               ELSE [c \in DOMAIN selectedAt \cup {colIndex} |->
                       IF c = colIndex THEN clock + 1 ELSE selectedAt[c]]
  /\ UNCHANGED <<rawData, activeSheet, searchTerm, effectPending>>


(***************************************************************************)
(* parseExcelFile on one first sheet                                       *)
(***************************************************************************)
ExHeaderCells == {Str(S_symbolLoose), H_VAL, H_TYP, Str(S_Remarks)}

ExHeaderRows ==
  {<<a, b, c>> : a \in ExHeaderCells, b \in ExHeaderCells, c \in ExHeaderCells}
  \cup {<<H_SYM, Str(S_valueLoose), H_TYP, H_NUM>>, <<Null, H_SYM, Num(5, 0)>>}

ExDataRows ==
  { <<Str(S_TCS), Str(S_1000), Str(S_Buy)>>,
    <<Null, Null, Null>>,
    <<Str(<<>>), Num(5, 0), Str(S_Sell)>>,
    <<Str(S_INFY), Num(-5, 0), Str(S_Buy)>>,
    <<Str(S_TCS), Null, Str(S_Sell)>>,
    <<Num(0, 0), Str(S_12a), Null>>,
    <<Str(S_INFY), Str(S_abc), Str(<<>>)>>,
    <<Null, Num(0, 0), Str(S_Buy)>> }

\* How many data rows the first sheet has at most.
MaxDataRows == 2

RECURSIVE SeqsUpTo(_, _)
SeqsUpTo(S, n) ==
  IF n = 0 THEN {<<>>}
  ELSE LET shorter == SeqsUpTo(S, n - 1)
       IN  shorter \cup {Append(s, x) : s \in {t \in shorter : Len(t) = n - 1}, x \in S}

NotRun == [done |-> FALSE, ok |-> TRUE, message |-> "", transactions |-> <<>>, rawData |-> <<>>]

ExIdle ==
  /\ exSheet = <<>>
  /\ exResult = NotRun

ExInit ==
  /\ exSheet \in {<<>>} \cup {<<h>> \o rows : h \in ExHeaderRows, rows \in SeqsUpTo(ExDataRows, MaxDataRows)}
  /\ exResult = NotRun

ExFile == File("sheet.xlsx", TRUE, <<Sheet("Sheet1", exSheet), Sheet("Notes", NotesSheet)>>)

Extract ==
  /\ ~exResult.done
  /\ exResult' = LET r == parseExcelFile(ExFile)
                 IN  [done |-> TRUE, ok |-> r.ok, message |-> r.message,
                      transactions |-> r.transactions, rawData |-> r.rawData]
  /\ UNCHANGED exSheet

(***************************************************************************)
(* The search filter on one workbook                                       *)
(***************************************************************************)
S_Ab == <<"A","b">>

T_B == <<"B">>

T_null == <<"N","u","l","l">>

FilterCells == {Null, Str(S_Ab), Num(12, 0)}

FilterRows == {<<a, b>> : a \in FilterCells, b \in FilterCells}

\* How many rows (the header row included) the filtered sheet has at most.
MaxFilterRows == 3

FilterTerms == {<<>>, T_B, T_1, T_null, T_zz}

FIdle ==
  /\ fRaw = <<>>
  /\ fTerm = <<>>
  /\ fOnce = <<>>
  /\ fTwice = <<>>
  /\ fpc = "idle"

FInit ==
  /\ fRaw \in {<<Sheet("S1", rows), Sheet("S2", NotesSheet)>> : rows \in SeqsUpTo(FilterRows, MaxFilterRows)}
  /\ fTerm \in FilterTerms
  /\ fOnce = <<>>
  /\ fTwice = <<>>
  /\ fpc = "start"

FilterOnce ==
  /\ fpc = "start"
  /\ fOnce' = filteredData(fRaw, fTerm)
  /\ fpc' = "once"
  /\ UNCHANGED <<fRaw, fTerm, fTwice>>

FilterTwice ==
  /\ fpc = "once"
  /\ fTwice' = filteredData(fOnce, fTerm)
  /\ fpc' = "twice"
  /\ UNCHANGED <<fRaw, fTerm, fOnce>>

(***************************************************************************)
(* Column-type inference on one view                                       *)
(***************************************************************************)
InferCells == {Null, Str(<<>>), Num(5, 0), Str(S_1000), Str(S_12a)}

\* Data rows of a view with a header row of up to two columns; the last two
\* are shorter than the header row.
InferRows ==
  { <<Num(5, 0), Str(S_1000)>>,
    <<Null, Str(<<>>)>>,
    <<Str(S_12a), Num(5, 0)>>,
    <<Num(5, 0), Str(S_12a)>>,
    <<Num(5, 0)>>,
    <<>> }

\* How many rows follow the repeated first row of the view.
MaxTailRows == 2

\* How often the first row is repeated: views shorter than, as long as and
\* longer than the sample.
InferRepeats == {0, SampleRows - 1, SampleRows}

Repeat(row, n) == [i \in 1..n |-> row]

InferViews ==
  {Repeat(first, n) \o tail :
     first \in InferRows, n \in InferRepeats, tail \in SeqsUpTo(InferRows, MaxTailRows)}

IIdle ==
  /\ iRows = <<>>
  /\ iWidth = 0
  /\ iSummable = {}
  /\ iEdited = <<>>
  /\ iSummableEdited = {}
  /\ ipc = "idle"

IInit ==
  /\ iRows \in InferViews
  /\ iWidth \in 1..2
  /\ iSummable = {}
  /\ iEdited = <<>>
  /\ iSummableEdited = {}
  /\ ipc = "start"

\* summableColumns of the view.
Infer ==
  /\ ipc = "start"
  /\ iSummable' = summableColumns(iRows, iWidth)
  /\ ipc' = "inferred"
  /\ UNCHANGED <<iRows, iWidth, iEdited, iSummableEdited>>

\* summableColumns of the view whose cell j of data row i (0-based, not
\* among the first SampleRows rows) holds v instead.
InferAfterLateChange(i, j, v) ==
  /\ ipc = "inferred"
  /\ i >= SampleRows
  /\ i < Len(iRows)
  /\ j < Len(iRows[i + 1])
  /\ iEdited' = [iRows EXCEPT ![i + 1][j + 1] = v]
  /\ iSummableEdited' = summableColumns(iEdited', iWidth)
  /\ ipc' = "edited"
  /\ UNCHANGED <<iRows, iWidth, iSummable>>

(***************************************************************************)
(* isNumeric on one cell                                                   *)
(***************************************************************************)
NumericChars == {"0", "1", ",", ".", "-", " ", "a"}

\* How many characters a generated cell text has at most.
MaxCellLen == 3

S_NA == <<"N","/","A">>

S_m52 == <<"-","5",".","2">>

S_12345 == <<"1",",","2","3","4",".","5">>

NumericCells ==
  {Str(s) : s \in SeqsUpTo(NumericChars, MaxCellLen)}
  \cup {Str(InfinityLit), Str(<<"-">> \o InfinityLit), Str(S_NA), Str(S_12a),
        Str(S_m52), Str(S_12345), Str(S_1000), Str(S_abc)}
  \cup {Null, Undefined, Num(0, 0), Num(5, 0), Num(-52, 1), Num(25, 1)}

NIdle ==
  /\ nCell = Null
  /\ nNumeric = FALSE
  /\ npc = "idle"

NInit ==
  /\ nCell \in NumericCells
  /\ nNumeric = FALSE
  /\ npc = "start"

CheckNumeric ==
  /\ npc = "start"
  /\ nNumeric' = isNumeric(nCell)
  /\ npc' = "done"
  /\ UNCHANGED nCell

(***************************************************************************)
(* The summary of one transaction list                                     *)
(***************************************************************************)
S_A == <<"A">>

S_B == <<"B">>

S_C == <<"C">>

Tx(symbol, value) ==
  [EmptyTransaction EXCEPT !["symbol"] = Str(symbol), !["value"] = Num(value, 0)]

SummaryTransactions ==
  {Tx(s, v) : s \in {S_A, S_B, S_C}, v \in {0, 50, 100, 200}}

\* How many transactions the summarised list has at most.
MaxTransactions == 3

SIdle ==
  /\ sData = <<>>
  /\ sSummary = <<>>
  /\ spc = "idle"

SInit ==
  /\ sData \in SeqsUpTo(SummaryTransactions, MaxTransactions)
  /\ sSummary = <<>>
  /\ spc = "start"

\* processData(data) up to setSummary.
Summarise ==
  /\ spc = "start"
  /\ sSummary' = (IF Len(sData) = 0 THEN <<>> ELSE sortedSummary(sData))
  /\ spc' = "done"
  /\ UNCHANGED sData

(***************************************************************************)
(* DataTable (components/DataTable.tsx)                                    *)
(***************************************************************************)
rowsPerPage == 15

\* The characters of the modelled cell texts in the order of their code
\* units.
CodeOrder ==
  <<" ", ",", "-", ".", "/">> \o Digits \o UpperAlpha \o LowerAlpha

\* a < b for strings: the first differing code unit decides, a proper
\* prefix is less.
RECURSIVE StringLess(_, _)
StringLess(a, b) ==
  IF b = <<>> THEN FALSE
  ELSE IF a = <<>> THEN TRUE
  ELSE IF Head(a) = Head(b) THEN StringLess(Tail(a), Tail(b))
  ELSE IndexIn(CodeOrder, Head(a)) < IndexIn(CodeOrder, Head(b))

\* x < y for numbers: false when either is NaN.
NumberLess(x, y) ==
  IF isNaN(x) \/ isNaN(y) THEN FALSE
  ELSE IF x.t = "inf" THEN x.n = -1 /\ ~(y.t = "inf" /\ y.n = -1)
  ELSE IF y.t = "inf" THEN y.n = 1
  ELSE x.n * Pow10(y.e) < y.n * Pow10(x.e)

\* ToNumber of a property value.
ToNumber(c) ==
  IF c.k = "num" THEN c.v
  ELSE IF c.k = "str" THEN Number(c.s)
  ELSE IF c.k = "null" THEN Zero
  ELSE NaN

\* valA < valB: two strings compare by code units, anything else as numbers.
ValueLess(a, b) ==
  IF a.k = "str" /\ b.k = "str" THEN StringLess(a.s, b.s)
  ELSE NumberLess(ToNumber(a), ToNumber(b))

\* Object.values(transaction): the values of the properties that were set.
ObjectValues(transaction) ==
  {transaction[f] : f \in {g \in FieldNames : transaction[g] # Undefined}}

\* const filteredData = useMemo(...)
DataTable_filteredData(data, flt) ==
  SelectSeq(data,
            LAMBDA transaction :
              \E value \in ObjectValues(transaction) :
                 includes(toLowerCase(String(value)), toLowerCase(flt)))

\* The comparator of sortedData.
DataTable_compare(a, b, key, order) ==
  IF ValueLess(a[key], b[key]) THEN (IF order = "asc" THEN -1 ELSE 1)
  ELSE IF ValueLess(b[key], a[key]) THEN (IF order = "asc" THEN 1 ELSE -1)
  ELSE 0

\* Array.prototype.sort is stable: insert each element after every element
\* that the comparator does not put behind it.
RECURSIVE DataTable_insert(_, _, _, _)
DataTable_insert(sorted, x, key, order) ==
  IF sorted # <<>> /\ DataTable_compare(sorted[Len(sorted)], x, key, order) > 0
  THEN Append(DataTable_insert(SubSeq(sorted, 1, Len(sorted) - 1), x, key, order),
              sorted[Len(sorted)])
  ELSE Append(sorted, x)

RECURSIVE DataTable_sort(_, _, _)
DataTable_sort(data, key, order) ==
  IF data = <<>> THEN <<>>
  ELSE DataTable_insert(DataTable_sort(SubSeq(data, 1, Len(data) - 1), key, order),
                        data[Len(data)], key, order)

\* const sortedData = useMemo(...); sortKey null is "".
DataTable_sortedData(data, key, order) ==
  IF key = "" THEN data ELSE DataTable_sort(data, key, order)

\* sortedData.slice(startIndex, startIndex + rowsPerPage)
DataTable_paginatedData(data, page) ==
  LET startIndex == (page - 1) * rowsPerPage
  IN  SubSeq(data, startIndex + 1, Min(startIndex + rowsPerPage, Len(data)))

\* Math.ceil(sortedData.length / rowsPerPage)
DataTable_totalPages(data) == (Len(data) + rowsPerPage - 1) \div rowsPerPage

\* The derived values of the current render.
curFiltered == DataTable_filteredData(dTransactions, filter)

curSorted == DataTable_sortedData(curFiltered, sortKey, sortOrder)

curPage == DataTable_paginatedData(curSorted, currentPage)

totalPages == DataTable_totalPages(curSorted)

S_x == <<"x">>

\* A transaction with every field set.
Row(symbol, value) ==
  [symbol |-> Str(symbol), acquirerDisposer |-> Str(S_x), numSecurities |-> Num(1, 0),
   value |-> Num(value, 0), transactionType |-> Str(S_Buy), date |-> Str(S_x)]

\* Transaction lists of no, one, two and three pages.
PageFills == {0, 1, rowsPerPage, rowsPerPage + 1}

TableInputs ==
  {Repeat(Row(S_TCS, 200), a) \o Repeat(Row(S_INFY, 50), b) : a \in PageFills, b \in PageFills}

TableFilters == {<<>>, T_T, <<"i","n","f">>, T_zz}

DIdle ==
  /\ dTransactions = <<>>
  /\ filter = <<>>
  /\ sortKey = ""
  /\ sortOrder = "asc"
  /\ currentPage = 1

DInit ==
  /\ dTransactions \in TableInputs
  /\ filter = <<>>
  /\ sortKey = ""
  /\ sortOrder = "asc"
  /\ currentPage = 1

\* onChange of the filter input, rendered while there are transactions.
setFilter(value) ==
  /\ Len(dTransactions) > 0
  /\ filter' = value
  /\ UNCHANGED <<dTransactions, sortKey, sortOrder, currentPage>>

\* handleSort(key): a click on a column header.
handleSort(key) ==
  /\ Len(dTransactions) > 0
  /\ IF sortKey = key
     THEN /\ sortOrder' = (IF sortOrder = "asc" THEN "desc" ELSE "asc")
          /\ UNCHANGED sortKey
     ELSE /\ sortKey' = key
          /\ sortOrder' = "asc"
  /\ UNCHANGED <<dTransactions, filter, currentPage>>

\* The Previous button: rendered while totalPages > 1, disabled on page 1.
PreviousPage ==
  /\ Len(dTransactions) > 0
  /\ totalPages > 1
  /\ currentPage # 1
  /\ currentPage' = (IF currentPage - 1 > 1 THEN currentPage - 1 ELSE 1)
  /\ UNCHANGED <<dTransactions, filter, sortKey, sortOrder>>

\* The Next button: rendered while totalPages > 1, disabled on the last page.
NextPage ==
  /\ Len(dTransactions) > 0
  /\ totalPages > 1
  /\ currentPage # totalPages
  /\ currentPage' = Min(totalPages, currentPage + 1)
  /\ UNCHANGED <<dTransactions, filter, sortKey, sortOrder>>

(***************************************************************************)
(* Specifications                                                          *)
(***************************************************************************)
Init == AppInit /\ ViewerIdle /\ ExIdle /\ FIdle /\ IIdle /\ NIdle /\ SIdle /\ DIdle

Next ==
  \/ \E f \in Files : handleFileUpload(f) /\ UNCHANGED <<viewerVars, exVars, fVars, iVars, nVars, sVars, dVars>>
  \/ \E i \in 1..MaxUploads : ParseSettled(i) /\ UNCHANGED <<viewerVars, exVars, fVars, iVars, nVars, sVars, dVars>>
  \/ \E i \in 1..MaxUploads : InsightsResolved(i) /\ UNCHANGED <<viewerVars, exVars, fVars, iVars, nVars, sVars, dVars>>
  \/ \E i \in 1..MaxUploads : InsightsRejected(i) /\ UNCHANGED <<viewerVars, exVars, fVars, iVars, nVars, sVars, dVars>>
  \/ resetState /\ UNCHANGED <<viewerVars, exVars, fVars, iVars, nVars, sVars, dVars>>
  \/ OpenViewer /\ UNCHANGED <<viewerVars, exVars, fVars, iVars, nVars, sVars, dVars>>
  \/ CloseViewer /\ UNCHANGED <<viewerVars, exVars, fVars, iVars, nVars, sVars, dVars>>

\* The load cycle of App.
Spec == Init /\ [][Next]_vars

\* The promise of parseExcelFile and the call of getFinancialInsights of
\* every upload settle eventually: the file reader fires load or error,
\* and the request resolves or fails.
Settling ==
  \A i \in 1..MaxUploads :
     /\ WF_vars(ParseSettled(i)
                 /\ UNCHANGED <<viewerVars, exVars, fVars, iVars, nVars, sVars, dVars>>)
     /\ WF_vars((InsightsResolved(i) \/ InsightsRejected(i))
                 /\ UNCHANGED <<viewerVars, exVars, fVars, iVars, nVars, sVars, dVars>>)

\* The load cycle of App with promises that settle.
SpecSettling == Spec /\ Settling

InitViewer == AppInit /\ ViewerInit /\ ExIdle /\ FIdle /\ IIdle /\ NIdle /\ SIdle /\ DIdle

NextViewer ==
  \/ \E term \in SearchTerms : setSearchTerm(term) /\ UNCHANGED <<appVars, exVars, fVars, iVars, nVars, sVars, dVars>>
  \/ \E i \in 1..Len(rawData) :
        setActiveSheet(rawData[i].name) /\ UNCHANGED <<appVars, exVars, fVars, iVars, nVars, sVars, dVars>>
  \/ ResetSelectionsEffect /\ UNCHANGED <<appVars, exVars, fVars, iVars, nVars, sVars, dVars>>
  \/ \E colIndex \in 0..(Len(curHeaders) - 1) :
        toggleColumnSum(colIndex) /\ UNCHANGED <<appVars, exVars, fVars, iVars, nVars, sVars, dVars>>

\* One mounted ExcelViewer.
SpecViewer == InitViewer /\ [][NextViewer]_vars

InitExtract == AppInit /\ ViewerIdle /\ ExInit /\ FIdle /\ IIdle /\ NIdle /\ SIdle /\ DIdle

NextExtract == Extract /\ UNCHANGED <<appVars, viewerVars, fVars, iVars, nVars, sVars, dVars>>

\* parseExcelFile applied to a first sheet.
SpecExtract == InitExtract /\ [][NextExtract]_vars

InitFilter == AppInit /\ ViewerIdle /\ ExIdle /\ FInit /\ IIdle /\ NIdle /\ SIdle /\ DIdle

NextFilter ==
  \/ FilterOnce /\ UNCHANGED <<appVars, viewerVars, exVars, iVars, nVars, sVars, dVars>>
  \/ FilterTwice /\ UNCHANGED <<appVars, viewerVars, exVars, iVars, nVars, sVars, dVars>>

\* The search filter applied once and again.
SpecFilter == InitFilter /\ [][NextFilter]_vars

InitInfer == AppInit /\ ViewerIdle /\ ExIdle /\ FIdle /\ IInit /\ NIdle /\ SIdle /\ DIdle

NextInfer ==
  \/ Infer /\ UNCHANGED <<appVars, viewerVars, exVars, fVars, nVars, sVars, dVars>>
  \/ \E i \in SampleRows..(SampleRows + MaxTailRows) : \E j \in 0..1 : \E v \in InferCells :
        InferAfterLateChange(i, j, v)
          /\ UNCHANGED <<appVars, viewerVars, exVars, fVars, nVars, sVars, dVars>>

\* Column-type inference on one view.
SpecInfer == InitInfer /\ [][NextInfer]_vars

InitNumeric == AppInit /\ ViewerIdle /\ ExIdle /\ FIdle /\ IIdle /\ NInit /\ SIdle /\ DIdle

NextNumeric == CheckNumeric /\ UNCHANGED <<appVars, viewerVars, exVars, fVars, iVars, sVars, dVars>>

\* isNumeric applied to one cell.
SpecNumeric == InitNumeric /\ [][NextNumeric]_vars

InitSummary == AppInit /\ ViewerIdle /\ ExIdle /\ FIdle /\ IIdle /\ NIdle /\ SInit /\ DIdle

NextSummary == Summarise /\ UNCHANGED <<appVars, viewerVars, exVars, fVars, iVars, nVars, dVars>>

\* The summary step of processData applied to one transaction list.
SpecSummary == InitSummary /\ [][NextSummary]_vars

InitTable == AppInit /\ ViewerIdle /\ ExIdle /\ FIdle /\ IIdle /\ NIdle /\ SIdle /\ DInit

NextTable ==
  \/ \E value \in TableFilters :
        setFilter(value) /\ UNCHANGED <<appVars, viewerVars, exVars, fVars, iVars, nVars, sVars>>
  \/ \E key \in FieldNames :
        handleSort(key) /\ UNCHANGED <<appVars, viewerVars, exVars, fVars, iVars, nVars, sVars>>
  \/ PreviousPage /\ UNCHANGED <<appVars, viewerVars, exVars, fVars, iVars, nVars, sVars>>
  \/ NextPage /\ UNCHANGED <<appVars, viewerVars, exVars, fVars, iVars, nVars, sVars>>

\* One mounted DataTable.
SpecTable == InitTable /\ [][NextTable]_vars

(***************************************************************************)
(* Properties                                                              *)
(***************************************************************************)
\* The k-th smallest element of a finite set of integers.
NthOf(S, k) == CHOOSE x \in S : Cardinality({y \in S : y < x}) = k - 1

MaxOf(S) == CHOOSE x \in S : \A y \in S : y <= x

\* The known fields found in a header row, each counted once.
KnownFieldsFound(headerRow) ==
  {EXCEL_HEADER_MAPPING(sanitizeKey(String(headerRow[i]))) : i \in 1..Len(headerRow)} \ {""}

\* The first sheet of a file has data rows and its header row names fewer
\* than three known fields.
SchemaFails(file) ==
  /\ file.decodes
  /\ Len(file.workbook) > 0
  /\ Len(file.workbook[1].rows) >= 2
  /\ Cardinality(KnownFieldsFound(file.workbook[1].rows[1])) < MinMappedHeaders

\* The upload that is on display: the latest one, not reset since.
Current(i) == i = Len(tasks) /\ fileName = tasks[i].file.name

\* C1: when the first sheet has data rows but its header row fails the
\* schema check, the finished load still holds the raw data of every sheet
\* (rawExcelData is the workbook, non-empty) and the raw viewer can be opened
\* (the DataTable with "View Original" is shown).
C1_SchemaErrorKeepsRawData ==
  \A i \in 1..Len(tasks) :
     (Current(i) /\ tasks[i].pc = "done" /\ SchemaFails(tasks[i].file))
       => /\ ~rawExcelData.isNull
          /\ rawExcelData.data = tasks[i].file.workbook
          /\ Len(rawExcelData.data) > 0
          /\ DataTableShown

\* The field each column of a header row maps to ("" for none), after
\* trimming and upper-casing its label.
FieldsOf(headerRow) ==
  [j \in 1..Len(headerRow) |-> EXCEL_HEADER_MAPPING(sanitizeKey(String(headerRow[j])))]

\* The 0-based columns that map to field f and hold a non-null cell in row.
FilledColumns(fields, row, f) ==
  {j \in 0..(Len(fields) - 1) : fields[j + 1] = f /\ At(row, j) # Null}

\* The cell a row leaves in field f: that of the last such column.
ResultingCell(fields, row, f) ==
  IF FilledColumns(fields, row, f) = {} THEN Undefined
  ELSE At(row, MaxOf(FilledColumns(fields, row, f)))

ResultingValue(fields, row) ==
  OrZero(parseFloat(replaceCommas(String(ResultingCell(fields, row, "value")))))

\* The condition of C2 on one data row: a mapped column holds a cell that
\* is not null, the resulting symbol is non-empty (a non-empty string or a
\* non-zero number), and a value results and is >= 0.
RowYieldsRecord(fields, row) ==
  /\ \E f \in FieldNames : \E j \in FilledColumns(fields, row, f) : j < Len(row)
  /\ Truthy(ResultingCell(fields, row, "symbol"))
  /\ FilledColumns(fields, row, "value") # {}
  /\ GeZero(ResultingValue(fields, row))

\* C2: once the schema check has passed, the transactions are exactly the
\* records of the data rows that satisfy RowYieldsRecord, in the order of
\* their rows; every other row is dropped and the parse still resolves.
C2_RecordIffRowValid ==
  (exResult.done /\ exResult.ok /\ Len(exSheet) >= 2)
    => \E fields \in {FieldsOf(exSheet[1])} :
         LET kept == {i \in 2..Len(exSheet) : RowYieldsRecord(fields, exSheet[i])}
         IN  /\ Len(exResult.transactions) = Cardinality(kept)
             /\ \A k \in 1..Cardinality(kept) :
                   /\ exResult.transactions[k].symbol =
                        ResultingCell(fields, exSheet[NthOf(kept, k)], "symbol")
                   /\ exResult.transactions[k].value =
                        NumCell(ResultingValue(fields, exSheet[NthOf(kept, k)]))

\* Two data rows, the first dropped for its missing value and the second
\* kept.
C2_Witness ==
  /\ exResult.done /\ exResult.ok
  /\ Len(exSheet) = 3
  /\ Len(exResult.transactions) = 1
  /\ \E fields \in {FieldsOf(exSheet[1])} :
        /\ Truthy(ResultingCell(fields, exSheet[2], "symbol"))
        /\ FilledColumns(fields, exSheet[2], "value") = {}
        /\ RowYieldsRecord(fields, exSheet[3])

\* C3: extraction from a first sheet with data rows fails with a
\* SchemaError exactly when fewer than 3 of the 6 known fields, counted as
\* distinct fields, are found in the header row.
C3_SchemaErrorIffFewerThanThreeFields ==
  (exResult.done /\ Len(exSheet) >= 2)
    => (~exResult.ok <=> Cardinality(KnownFieldsFound(exSheet[1])) < MinMappedHeaders)

\* The numeric value of a cell that is numeric per isNumeric, 0 for any
\* other cell.
NumericValue(c) ==
  IF isNumeric(c) THEN Number(replaceCommas(String(c))) ELSE Zero

RECURSIVE NumericSum(_, _)
NumericSum(rows, colIndex) ==
  IF rows = <<>> THEN Zero
  ELSE Add(NumericValue(At(Head(rows), colIndex)), NumericSum(Tail(rows), colIndex))

Selected == {selectedColumnsForSum[i] : i \in 1..Len(selectedColumnsForSum)}

\* C4: for every selected column, the displayed total is the sum of the
\* numeric values of the cells of that column, in the filtered rows of the
\* active sheet, that are numeric per isNumeric; other cells add nothing.
C4_TotalIsSumOfNumericCells ==
  (~effectPending /\ ~curTotals.isNull)
    => \A c \in Selected : TotalOf(curTotals, c) = NumericSum(curDataRows, c)

C6_NumeratorIsEarlierSelected ==
  (Cardinality(DOMAIN selectedAt) = 2 /\ Len(curDataRows) > 0)
    => /\ ~curDivision.isNull
       /\ \E a \in DOMAIN selectedAt : \E b \in DOMAIN selectedAt :
             /\ selectedAt[a] < selectedAt[b]
             /\ curDivision.total1 = ColumnTotal(curDataRows, a)
             /\ curDivision.total2 = ColumnTotal(curDataRows, b)

\* Four toggles: one column selected, a second selected, one deselected, a
\* column selected again; the numerator column is right of the denominator
\* column and the two totals differ.
C6_Witness ==
  /\ ~curDivision.isNull
  /\ clock = 4
  /\ selectedAt[selectedColumnsForSum[1]] = 2
  /\ selectedAt[selectedColumnsForSum[2]] = 4
  /\ selectedColumnsForSum[1] > selectedColumnsForSum[2]
  /\ curDivision.total1 # curDivision.total2

\* C7: switching the active sheet to a different sheet empties the column
\* selection in the same step: no state has the new sheet active with the
\* selection made on the previous sheet.
C7_SwitchEmptiesSelection ==
  [][activeSheet' # activeSheet => selectedColumnsForSum' = <<>>]_vars

\* C8: in every state with a rendered table, every selected column index
\* is in the summable-column set of the current filtered view of the active
\* sheet.
C8_SelectedColumnsAreSummable ==
  (~effectPending /\ Len(curDataRows) > 0) => Selected \subseteq curSummable

\* s contains t at some offset.
ContainsAt(s, t) == \E p \in 0..(Len(s) - Len(t)) : SubSeq(s, p + 1, p + Len(t)) = t

\* A row has a non-null cell whose string form contains the term,
\* case-insensitively.
RowContains(row, term) ==
  \E j \in 1..Len(row) :
     row[j] # Null /\ ContainsAt(toLowerCase(String(row[j])), toLowerCase(term))

\* The filtered form of one sheet, as C9 states it.
SheetFilteredAsStated(original, filtered, term) ==
  IF term = <<>> THEN filtered = original
  ELSE IF Len(original) = 0 THEN filtered = <<>>
  ELSE LET kept == {r \in 2..Len(original) : RowContains(original[r], term)}
       IN  /\ Len(filtered) = 1 + Cardinality(kept)
           /\ filtered[1] = original[1]
           /\ \A k \in 1..Cardinality(kept) : filtered[1 + k] = original[NthOf(kept, k)]

\* C9: for every sheet and search term the filtered view keeps the header
\* row and its data rows are exactly the original data rows, in order, with
\* a non-null cell whose string form contains the term case-insensitively;
\* for the empty term the filtered view is the original view; a sheet
\* without data rows filters to no data rows.
C9_FilterKeepsMatchingRows ==
  fpc # "start"
    => /\ Len(fOnce) = Len(fRaw)
       /\ \A i \in 1..Len(fRaw) :
             /\ fOnce[i].name = fRaw[i].name
             /\ SheetFilteredAsStated(fRaw[i].rows, fOnce[i].rows, fTerm)

\* A non-empty term that keeps one data row of the first sheet and drops
\* another, which has a null cell.
C9_Witness ==
  /\ fpc = "once"
  /\ fTerm # <<>>
  /\ Len(fRaw[1].rows) = 3
  /\ Len(fOnce[1].rows) = 2
  /\ \E r \in 2..3 : \E j \in 1..2 : fRaw[1].rows[r][j] = Null

\* C10: filtering an already filtered view with the same term gives the
\* same headers and rows per sheet as filtering once.
C10_FilterIsIdempotent == fpc = "twice" => fTwice = fOnce

\* The filter applied twice with a term that dropped a row and kept one.
C10_Witness ==
  /\ fpc = "twice"
  /\ fTerm # <<>>
  /\ Len(fRaw[1].rows) = 3
  /\ Len(fTwice[1].rows) = 2

\* The sampled data rows of a view: its first min(SampleRows, rowCount) rows.
SampledRows(rows) == SubSeq(rows, 1, Min(SampleRows, Len(rows)))

\* Cell j (0-based) of a row exists and is neither null nor the empty string.
HoldsValue(row, j) == j < Len(row) /\ row[j + 1] # Null /\ row[j + 1] # Str(<<>>)

\* Every cell of column j in the sampled rows that holds a value is numeric.
SampleIsNumeric(rows, j) ==
  \A i \in 1..Len(SampledRows(rows)) :
     HoldsValue(rows[i], j) => isNumeric(rows[i][j + 1])

\* C11: for every view, one without data rows included, and every column
\* index below the header length, the column is classified summable if and
\* only if every cell of the column in the first min(20, rowCount) data rows
\* that is neither null nor the empty string is numeric per isNumeric.
C11_SummableIffSampleNumeric ==
  ipc # "start"
    => \A j \in 0..(iWidth - 1) : (j \in iSummable <=> SampleIsNumeric(iRows, j))

\* C19: a data row shorter than the header row never makes a column
\* non-summable: a column whose existing sampled cells are all null, empty
\* or numeric is summable in a view with data rows.
C19_ShortRowsAreTolerated ==
  (ipc # "start" /\ Len(iRows) > 0 /\ \E i \in 1..Len(SampledRows(iRows)) : Len(iRows[i]) < iWidth)
    => \A j \in 0..(iWidth - 1) : SampleIsNumeric(iRows, j) => j \in iSummable

\* C20: changing a cell of a data row at index 20 or later does not change
\* which columns are classified summable.
C20_LateRowsDoNotMatter == ipc = "edited" => iSummableEdited = iSummable

\* Text was put in a late row of a column that is summable, in a view of
\* more than 20 rows.
C20_Witness ==
  /\ ipc = "edited"
  /\ Len(iRows) > SampleRows
  /\ iSummable # {}
  /\ \E i \in (SampleRows + 1)..Len(iRows) : \E j \in iSummable :
        /\ j < Len(iRows[i])
        /\ iEdited[i][j + 1] = Str(S_12a)
        /\ iRows[i][j + 1] # Str(S_12a)

\* The string form of a cell, commas removed, parses to a finite number: it
\* is not blank and is a decimal literal as a whole.
ParsesToFiniteNumber(c) ==
  LET s == replaceCommas(String(c))
  IN  trim(s) # <<>> /\ Number(s).t = "fin"

\* C18: isNumeric(v) is true if and only if the string form of v with all
\* commas removed parses to a finite number; it is false for null and for
\* the empty string (and so for white space only and for "Infinity").
C18_NumericIffFiniteParse ==
  npc = "done"
    => (nNumeric <=> (nCell # Null /\ nCell # Str(<<>>) /\ ParsesToFiniteNumber(nCell)))

\* The values of the transactions of data that carry symbol, added up.
RECURSIVE SumOfSymbol(_, _)
SumOfSymbol(data, symbol) ==
  IF data = <<>> THEN Zero
  ELSE IF Head(data).symbol = symbol
       THEN Add(Head(data).value.v, SumOfSymbol(Tail(data), symbol))
       ELSE SumOfSymbol(Tail(data), symbol)

\* x >= y
AtLeast(x, y) == GeZero(Add(x, Negate(y)))

\* C14: for every non-empty transaction list the summary has exactly one
\* entry per distinct symbol, each entry's totalValue is the sum of the
\* values of the transactions with that symbol, and the entries are in
\* descending order of totalValue.
C14_SummaryPerSymbolDescending ==
  (spc = "done" /\ sData # <<>>)
    => /\ {sSummary[k].symbol : k \in 1..Len(sSummary)} = {sData[i].symbol : i \in 1..Len(sData)}
       /\ \A k \in 1..Len(sSummary) : \A l \in 1..Len(sSummary) :
             sSummary[k].symbol = sSummary[l].symbol => k = l
       /\ \A k \in 1..Len(sSummary) :
             sSummary[k].totalValue = SumOfSymbol(sData, sSummary[k].symbol)
       /\ \A k \in 1..(Len(sSummary) - 1) :
             AtLeast(sSummary[k].totalValue, sSummary[k + 1].totalValue)

\* Symbols A, A, B with values 100, 50, 200 give [{B, 200}, {A, 150}].
C14_Witness ==
  /\ spc = "done"
  /\ sData = <<Tx(S_A, 100), Tx(S_A, 50), Tx(S_B, 200)>>
  /\ sSummary = <<[symbol |-> Str(S_B), totalValue |-> Fin(200, 0)],
                  [symbol |-> Str(S_A), totalValue |-> Fin(150, 0)]>>

\* C16: a first sheet that is a header row without data rows gives no
\* transactions, the raw data of all sheets and no error, whatever its
\* header labels are.
C16_HeaderOnlySheetIsNotAnError ==
  (exResult.done /\ Len(exSheet) = 1)
    => /\ exResult.ok
       /\ exResult.message = ""
       /\ exResult.transactions = <<>>
       /\ exResult.rawData = <<Sheet("Sheet1", exSheet), Sheet("Notes", NotesSheet)>>

\* A header-only first sheet whose header row names fewer than three known
\* fields was parsed.
C16_Witness ==
  /\ exResult.done /\ exResult.ok
  /\ Len(exSheet) = 1
  /\ Cardinality(KnownFieldsFound(exSheet[1])) < MinMappedHeaders
  /\ Len(exResult.rawData) = 2

\* The number of cells of column colIndex, in rows, that are numeric per
\* isNumeric.
NumericCount(rows, colIndex) ==
  Cardinality({i \in 1..Len(rows) : isNumeric(At(rows[i], colIndex))})

\* C17: for every selected column the aggregate holds, besides the sum, a
\* count equal to the number of numeric cells of the column in the filtered
\* rows and an average equal to sum / count when count > 0 and 0 otherwise.
C17_AggregateHasCountAndAverage ==
  (~effectPending /\ ~curTotals.isNull)
    => \A i \in 1..Len(curTotals.map) :
          LET aggregate == curTotals.map[i]
              count == NumericCount(curDataRows, aggregate.col)
          IN  /\ {"count", "average"} \subseteq DOMAIN aggregate
              /\ aggregate.count = count
              /\ aggregate.average =
                   (IF count > 0 THEN Divide(aggregate.total, Fin(count, 0))
                    ELSE Divide(Zero, Fin(1, 0)))

\* The i-th upload is the one on display and no earlier upload was still
\* running when it started.
OnDisplay(i) == Current(i) /\ tasks[i].alone

\* C12: when the AI summary call fails after transactions were extracted,
\* the transactions and the summary keep the values computed for the file
\* and the records table stays displayed.
C12_InsightFailureKeepsTable ==
  \A i \in 1..Len(tasks) :
     (OnDisplay(i) /\ tasks[i].pc = "done" /\ tasks[i].request # <<>> /\ geminiInsight = <<>>)
       => /\ transactions # <<>>
          /\ transactions = parseExcelFile(tasks[i].file).transactions
          /\ summary = sortedSummary(transactions)
          /\ DataTableShown

\* C13: once decoding and extraction have completed, the records table is
\* available while the AI summary request is still outstanding: the loading
\* state has ended.
C13_TableShownWhileInsightPending ==
  \A i \in 1..Len(tasks) :
     (OnDisplay(i) /\ tasks[i].pc = "insights") => (~isLoading /\ DataTableShown)

LatestUpload == tasks[Len(tasks)]

\* C21: results of a superseded load never appear.  After a reset the
\* transactions, summary, raw data, insight and error stay empty until a
\* new upload starts; after a newer upload has started, the transactions,
\* summary, raw data and insight on display are empty or those of the
\* latest file, never those of an earlier one.
C21_SupersededLoadNeverAppears ==
  /\ fileName = ""
       => /\ transactions = <<>>
          /\ summary = <<>>
          /\ rawExcelData = NoRaw
          /\ geminiInsight = <<>>
          /\ error = ""
  /\ (fileName # "" /\ Len(tasks) > 0)
       => \E r \in {parseExcelFile(LatestUpload.file)} :
             /\ transactions \in {<<>>, r.transactions}
             /\ summary \in {<<>>, sortedSummary(r.transactions)}
             /\ rawExcelData \in {NoRaw, Raw(r.rawData)}
             /\ geminiInsight \in
                  {<<>>, <<[of |-> Slice(sortedSummary(r.transactions), InsightTop)]>>}

\* C22: after any sequence of filter changes, sort changes and
\* Previous/Next clicks the current page stays within 1..max(1, totalPages),
\* totalPages being ceil(filteredCount / 15); so whenever a transaction
\* matches the filter, the displayed page holds at least one row.
C22_CurrentPageWithinPages ==
  /\ currentPage >= 1
  /\ currentPage <= (IF totalPages > 1 THEN totalPages ELSE 1)
  /\ totalPages * rowsPerPage >= Len(curFiltered)
  /\ Len(curFiltered) > (totalPages - 1) * rowsPerPage
  /\ Len(curFiltered) > 0 => Len(curPage) > 0

\* C23: every upload eventually leaves the loading state: when the decode
\* task and the AI summary call settle, the handleFileUpload call of every
\* upload that was started runs to its end and isLoading is false then, on
\* every path.
C23_UploadLeavesLoading ==
  \A i \in 1..MaxUploads :
     (Len(tasks) >= i) ~> (Len(tasks) >= i /\ tasks[i].pc = "done" /\ ~isLoading)

\* An upload whose file does not decode has ended, out of the loading
\* state, after an earlier upload that ended through the AI summary call.
C23_Witness ==
  /\ Len(tasks) = 2
  /\ tasks[1].pc = "done" /\ tasks[1].request # <<>>
  /\ tasks[2].pc = "done" /\ ~tasks[2].file.decodes
  /\ ~isLoading
  /\ error = ParseFailedMessage
====
